---- MODULE Spec2Model ----
(***************************************************************************)
(* A model of atopile's ranged-value arithmetic, deferred expressions and  *)
(* expression-pool simplifier (src/atopile/expressions.py) and of the      *)
(* hierarchical flattening pass (src/atopile/model2/flatten.py).           *)
(*                                                                         *)
(* Python floats/ints are modelled as exact rationals [n, d] (d > 0, in    *)
(* lowest terms).  A pint unit is modelled by its dimension: the integer   *)
(* exponent of one base unit (0 is dimensionless, 1 is V, 2 is V^2, ...).  *)
(* An exception raised by the code is a value [t |-> "Error", kind |-> k]. *)
(***************************************************************************)
EXTENDS Integers, Sequences, FiniteSets, TLC

VARIABLES
    rv_a,       \* left operand handed to a RangedValue operation
    rv_b,       \* right operand handed to a RangedValue operation
    rv_op,      \* the operation last applied ("none" before any)
    rv_out,     \* what the operation returned (a value or an Error)
    ex_e,       \* the Expression substitute is called on
    ex_subs,    \* the substitutions handed to it, in dict order
    ex_out,     \* what substitute returned (a value or an Error)
    ex_ctx,     \* the context the returned Expression is called with
    ex_val,     \* what that call returned (a value or an Error)
    sp_pool,    \* the pool handed to simplify_expression_pool
    sp_order,   \* the iteration order of that dict
    sp_rev,     \* the iteration order of the symbol sets
    sp_out,     \* what simplify_expression_pool returned (a dict or an Error)
    sp_trace,   \* the keys whose value was handed to substitute, in order
    sp_key,     \* the key whose residual Expression is called
    sp_ctx,     \* the context it is called with
    sp_val,     \* what that call returned (a value or an Error)
    fl_root,    \* the declarations of the object handed to build
    fl_out      \* the arena build left behind (instances, joints, error)

rv_vars == <<rv_a, rv_b, rv_op, rv_out>>

ex_vars == <<ex_e, ex_subs, ex_out, ex_ctx, ex_val>>

sp_vars == <<sp_pool, sp_order, sp_rev, sp_out, sp_trace, sp_key, sp_ctx, sp_val>>

fl_vars == <<fl_root, fl_out>>

vars == <<rv_vars, ex_vars, sp_vars, fl_vars>>

None == [t |-> "None"]

\* the variables of a part of the program that is not running
RVIdle == rv_a = None /\ rv_b = None /\ rv_op = "none" /\ rv_out = None

ExIdle ==
    /\ ex_e = None /\ ex_subs = <<>> /\ ex_out = None
    /\ ex_ctx = <<>> /\ ex_val = None

SPIdle ==
    /\ sp_pool = <<>> /\ sp_order = <<>> /\ sp_rev = FALSE
    /\ sp_out = None /\ sp_trace = <<>>
    /\ sp_key = "" /\ sp_ctx = <<>> /\ sp_val = None

FLIdle == fl_root = None /\ fl_out = None

Err(kind) == [t |-> "Error", kind |-> kind]

IsErr(x) == x.t = "Error"

(***************************************************************************)
(* Exact rational numbers standing for Python's float / int magnitudes.    *)
(***************************************************************************)
Abs(i) == IF i < 0 THEN -i ELSE i

RECURSIVE Gcd(_, _)
Gcd(a, b) == IF b = 0 THEN a ELSE Gcd(b, a % b)

\* the rational n/d in lowest terms, d /= 0
Reduce(n, d, g) == [n |-> n \div g, d |-> d \div g]

Rat(n, d) ==
    IF d < 0 THEN Reduce(-n, -d, Gcd(Abs(n), Abs(d)))
    ELSE Reduce(n, d, Gcd(Abs(n), Abs(d)))

Int2Rat(i) == [n |-> i, d |-> 1]

RAdd(x, y) == Rat(x.n * y.d + y.n * x.d, x.d * y.d)
RSub(x, y) == Rat(x.n * y.d - y.n * x.d, x.d * y.d)
RMul(x, y) == Rat(x.n * y.n, x.d * y.d)
RNeg(x) == [n |-> -x.n, d |-> x.d]
\* y /= 0
RDiv(x, y) == Rat(x.n * y.d, x.d * y.n)
RLe(x, y) == x.n * y.d <= y.n * x.d
RLt(x, y) == x.n * y.d < y.n * x.d
RIsZero(x) == x.n = 0

\* Python's min(a, b) / max(a, b): the first argument wins a tie
RMin2(x, y) == IF RLt(y, x) THEN y ELSE x
RMax2(x, y) == IF RLt(x, y) THEN y ELSE x

(***************************************************************************)
(* pint quantities: a magnitude and a unit.                                *)
(***************************************************************************)
_UNITLESS == 0

Num(x) == [t |-> "num", v |-> x]

\* a unit given as an argument (pint.Unit)
UnitArg(u) == [t |-> "unit", v |-> u]

Quantity(mag, units) == [t |-> "Quantity", mag |-> mag, units |-> units]

IsQuantity(x) == x.t = "Quantity"

\* qty.to(unit).magnitude: identity between equal units, a
\* DimensionalityError between units of different dimension
QtyToMag(q, unit) ==
    IF q.units = unit THEN q.mag ELSE Err("DimensionalityError")

\* _best_units: both conversions are attempted first; between equal units the
\* two magnitude strings have the same length and qty_b.units is returned
_best_units(qty_a, qty_b) ==
    IF qty_a.units /= qty_b.units THEN Err("DimensionalityError")
    ELSE UnitArg(qty_b.units)

QMul(p, q) == Quantity(RMul(p.mag, q.mag), p.units + q.units)

QDiv(p, q) ==
    IF RIsZero(q.mag) THEN Err("ZeroDivisionError")
    ELSE Quantity(RDiv(p.mag, q.mag), p.units - q.units)

QAdd(p, q) ==
    IF p.units /= q.units THEN Err("DimensionalityError")
    ELSE Quantity(RAdd(p.mag, q.mag), p.units)

QSub(p, q) ==
    IF p.units /= q.units THEN Err("DimensionalityError")
    ELSE Quantity(RSub(p.mag, q.mag), p.units)

QNeg(p) == Quantity(RNeg(p.mag), p.units)

\* min(...) / max(...) over a list of quantities of one unit, or the first
\* Error in the list (the list is built before min is called)
RECURSIVE FirstErr(_)
FirstErr(s) ==
    IF s = <<>> THEN None
    ELSE IF IsErr(Head(s)) THEN Head(s) ELSE FirstErr(Tail(s))

QMin2(p, q) == IF RLt(q.mag, p.mag) THEN q ELSE p

QMax2(p, q) == IF RLt(p.mag, q.mag) THEN q ELSE p

RECURSIVE QMinList(_)
QMinList(s) ==
    IF Len(s) = 1 THEN s[1] ELSE QMin2(s[1], QMinList(Tail(s)))

RECURSIVE QMaxList(_)
QMaxList(s) ==
    IF Len(s) = 1 THEN s[1] ELSE QMax2(s[1], QMaxList(Tail(s)))

(***************************************************************************)
(* RangedValue                                                             *)
(***************************************************************************)
MkRangedValue(lo, hi, unit, pretty) ==
    [t |-> "RangedValue", min_val |-> lo, max_val |-> hi,
     unit |-> unit, pretty_unit |-> pretty]

IsRangedValue(x) == x.t = "RangedValue"

\* RangedValue_order without the ordering: min_val is val_a, max_val is val_b
RangedValue_order_unsorted(a_mag, b_mag, unit, pretty) ==
    MkRangedValue(a_mag, b_mag, unit, pretty)

\* lines 97-100 of __init__: the two magnitudes are put in order
RangedValue_order(a_mag, b_mag, unit, pretty) ==
    MkRangedValue(RMin2(a_mag, b_mag), RMax2(a_mag, b_mag), unit, pretty)

\* lines 83-100 of __init__, once the unit is known: the magnitudes of the
\* endpoints in that unit, then the ordering
RangedValue_mags(a_mag, b_mag, unit, pretty) ==
    IF "t" \in DOMAIN a_mag THEN a_mag
    ELSE IF "t" \in DOMAIN b_mag THEN b_mag
    ELSE RangedValue_order(a_mag, b_mag, unit, pretty)

EndpointMag(val, unit) ==
    IF IsQuantity(val) THEN QtyToMag(val, unit) ELSE val.v

RangedValue_convert(val_a, val_b, u, pretty) ==
    IF IsErr(u) THEN u
    ELSE RangedValue_mags(EndpointMag(val_a, u.v), EndpointMag(val_b, u.v),
                          u.v, pretty)

\* lines 71-81 of __init__: the unit given, or the unit inferred
RangedValue_unit(val_a, val_b, unit) ==
    IF unit /= None THEN unit
    ELSE IF IsQuantity(val_a) /\ IsQuantity(val_b) THEN _best_units(val_a, val_b)
    ELSE IF IsQuantity(val_a) THEN UnitArg(val_a.units)
    \* line 78 repeats the test of line 76, so line 79 is never run
    ELSE UnitArg(_UNITLESS)

\* RangedValue.__init__(val_a, val_b, unit, pretty_unit); val_a / val_b are
\* Num or Quantity (or Error, when building the argument raised), val_b and
\* unit may be None
RangedValue_init(val_a, val_b, unit, pretty) ==
    IF IsErr(val_a) THEN val_a
    ELSE IF IsErr(val_b) THEN val_b
    ELSE IF val_b = None
    THEN RangedValue_convert(val_a, val_a, RangedValue_unit(val_a, val_a, unit), pretty)
    ELSE RangedValue_convert(val_a, val_b, RangedValue_unit(val_a, val_b, unit), pretty)

min_qty(rv) == Quantity(rv.min_val, rv.unit)
max_qty(rv) == Quantity(rv.max_val, rv.unit)

nominal(rv) == RDiv(RAdd(rv.min_val, rv.max_val), Int2Rat(2))

tolerance(rv) == RDiv(RSub(rv.max_val, rv.min_val), Int2Rat(2))

\* RangedValue._ensure
_ensure(thing) ==
    IF IsRangedValue(thing) THEN thing
    ELSE RangedValue_init(thing, thing, UnitArg(_UNITLESS), None)

\* cls(min(new_values), max(new_values))
FromCombos(new_values) ==
    IF FirstErr(new_values) /= None THEN FirstErr(new_values)
    ELSE RangedValue_init(QMinList(new_values), QMaxList(new_values), None, None)

\* the body of __mul__ after other = self._ensure(other)
mul_ensured(self, other) ==
    FromCombos(<< QMul(min_qty(self), min_qty(other)),
                  QMul(min_qty(self), max_qty(other)),
                  QMul(max_qty(self), min_qty(other)),
                  QMul(max_qty(self), max_qty(other)) >>)

RangedValue_mul(self, other) == mul_ensured(self, _ensure(other))

RangedValue_rmul(self, other) == RangedValue_mul(self, other)

\* the body of _do_truediv after both operands went through _ensure
truediv_ensured(numerator, denominator) ==
    FromCombos(<< QDiv(min_qty(numerator), min_qty(denominator)),
                  QDiv(min_qty(numerator), max_qty(denominator)),
                  QDiv(max_qty(numerator), min_qty(denominator)),
                  QDiv(max_qty(numerator), max_qty(denominator)) >>)

_do_truediv(numerator, denominator) ==
    truediv_ensured(_ensure(numerator), _ensure(denominator))

RangedValue_truediv(self, other) == _do_truediv(self, other)

RangedValue_rtruediv(self, other) == _do_truediv(other, self)

\* the body of __add__ after other = self._ensure(other)
add_ensured(self, other) ==
    RangedValue_init(QAdd(min_qty(self), min_qty(other)),
                     QAdd(max_qty(self), max_qty(other)), None, None)

RangedValue_add(self, other) == add_ensured(self, _ensure(other))

RangedValue_radd(self, other) == RangedValue_add(self, other)

\* sub_ensured pairing the endpoints like __add__: min - min, max - max
sub_ensured_paired(self, other) ==
    RangedValue_init(QSub(min_qty(self), min_qty(other)),
                     QSub(max_qty(self), max_qty(other)), None, None)

\* the body of __sub__ after other = self._ensure(other)
sub_ensured(self, other) ==
    RangedValue_init(QSub(min_qty(self), max_qty(other)),
                     QSub(max_qty(self), min_qty(other)), None, None)

RangedValue_sub(self, other) == sub_ensured(self, _ensure(other))

\* __rsub__ is called for `other - self` and returns self.__sub__(other)
RangedValue_rsub(self, other) == RangedValue_sub(self, other)

RangedValue_neg(self) ==
    RangedValue_init(QNeg(max_qty(self)), QNeg(min_qty(self)),
                     UnitArg(self.unit), self.pretty_unit)

\* RangedValue.__eq__
RangedValue_eq(self, other) ==
    IF IsRangedValue(other)
    THEN min_qty(self) = min_qty(other) /\ max_qty(self) = max_qty(other)
    ELSE IF other.t = "num"
    THEN /\ self.min_val = self.max_val
         /\ self.max_val = other.v
         /\ (self.unit = _UNITLESS \/ RIsZero(other.v))
    ELSE FALSE

(***************************************************************************)
(* Python's dispatch of a binary operator and of unary minus over plain    *)
(* numbers and RangedValues.                                               *)
(***************************************************************************)
BinOps == {"add", "sub", "mul", "truediv"}

NumBinary(op, x, y) ==
    CASE op = "add" -> Num(RAdd(x.v, y.v))
      [] op = "sub" -> Num(RSub(x.v, y.v))
      [] op = "mul" -> Num(RMul(x.v, y.v))
      [] op = "truediv" -> IF RIsZero(y.v) THEN Err("ZeroDivisionError")
                           ELSE Num(RDiv(x.v, y.v))

\* lhs <op> rhs with lhs a RangedValue: RangedValue.__op__(lhs, rhs)
RangedValue_binary(op, self, other) ==
    CASE op = "add" -> RangedValue_add(self, other)
      [] op = "sub" -> RangedValue_sub(self, other)
      [] op = "mul" -> RangedValue_mul(self, other)
      [] op = "truediv" -> RangedValue_truediv(self, other)

\* lhs <op> rhs with lhs a plain number and rhs a RangedValue:
\* RangedValue.__rop__(rhs, lhs)
RangedValue_reflected(op, self, other) ==
    CASE op = "add" -> RangedValue_radd(self, other)
      [] op = "sub" -> RangedValue_rsub(self, other)
      [] op = "mul" -> RangedValue_rmul(self, other)
      [] op = "truediv" -> RangedValue_rtruediv(self, other)

PyBinary(op, lhs, rhs) ==
    IF IsErr(lhs) THEN lhs
    ELSE IF IsErr(rhs) THEN rhs
    ELSE IF IsRangedValue(lhs) THEN RangedValue_binary(op, lhs, rhs)
    ELSE IF IsRangedValue(rhs) THEN RangedValue_reflected(op, rhs, lhs)
    ELSE NumBinary(op, lhs, rhs)

PyNeg(x) ==
    IF IsRangedValue(x) THEN RangedValue_neg(x) ELSE Num(RNeg(x.v))

(***************************************************************************)
(* Symbol and Expression.  A Symbol is identified by its key, so a set of  *)
(* Symbols is modelled by the set of their keys.  A closure is modelled by *)
(* a term recording what it captured:                                      *)
(*   LConst(v)        lambda context: thing                                *)
(*   LSym(key)        a Symbol used as lambda_                             *)
(*   LOp(op, l, r)    the lambda_ of defer_operation_factory               *)
(*   LSubst(c, f, b)  _new_lambda of substitute: constants c, callables f  *)
(*                    (in dict order) and self.lambda_ b                   *)
(* A context or a dict keyed by symbol key is a function on a set of keys. *)
(***************************************************************************)
Symbol(key) == [t |-> "Symbol", key |-> key]

Expression(symbols, lambda_) ==
    [t |-> "Expression", symbols |-> symbols, lambda_ |-> lambda_]

IsSymbol(x) == x.t = "Symbol"

IsExpression(x) == x.t = "Expression"

\* Python's callable(x) over the numeric-ish values
Callable(x) == IsSymbol(x) \/ IsExpression(x)

LConst(v) == [l |-> "const", v |-> v]

LSym(key) == [l |-> "sym", key |-> key]

LOp(op, lhs, rhs) == [l |-> "op", op |-> op, lhs |-> lhs, rhs |-> rhs]

LSubst(constants, callables, body) ==
    [l |-> "subst", constants |-> constants, callables |-> callables, body |-> body]

EmptyDict == <<>>

RECURSIVE Call(_, _), EvalLambda(_, _), EvalCallables(_, _)

\* lines 325-327 of Symbol.__call__, with thing = context[self.key]
Symbol_thing(thing, context) ==
    IF Callable(thing) THEN Call(thing, context) ELSE thing

\* Symbol.__call__
Symbol_call(key, context) ==
    IF key \notin DOMAIN context THEN Err("KeyError")
    ELSE Symbol_thing(context[key], context)

\* thing(context) for a callable thing: Symbol.__call__ or Expression.__call__
Call(thing, context) ==
    IF IsSymbol(thing) THEN Symbol_call(thing.key, context)
    ELSE EvalLambda(thing.lambda_, context)

\* line 386: new_context[symbol] = r, then the rest of the loop; an
\* exception raised by func ends it
EvalCallables_store(key, r, rest, new_context) ==
    IF IsErr(r) THEN r
    ELSE EvalCallables(rest, (key :> r) @@ new_context)

\* the loop of lines 385-386, in the order of the callables dict
EvalCallables(callables, new_context) ==
    IF callables = <<>> THEN [t |-> "context", v |-> new_context]
    ELSE EvalCallables_store(Head(callables).key,
                             Call(Head(callables).func, new_context),
                             Tail(callables), new_context)

\* line 387: self.lambda_(new_context)
_new_lambda_return(r, body) ==
    IF IsErr(r) THEN r ELSE EvalLambda(body, r.v)

\* _new_lambda(context), closed over (constants, callables, self.lambda_)
_new_lambda(constants, callables, body, context) ==
    IF (DOMAIN context) \cap (DOMAIN constants) /= {}
    THEN Err("NameCollision")
    ELSE _new_lambda_return(EvalCallables(callables, constants @@ context), body)

\* an operand of a deferred operation: called when callable, else itself
Operand(x, context) == IF Callable(x) THEN Call(x, context) ELSE x

EvalLambda(lam, context) ==
    CASE lam.l = "const" -> lam.v
      [] lam.l = "sym" -> Symbol_call(lam.key, context)
      [] lam.l = "op" ->
            \* the left operand is evaluated first; PyBinary hands back its
            \* exception without looking at the right one
            PyBinary(lam.op, Operand(lam.lhs, context), Operand(lam.rhs, context))
      [] lam.l = "subst" ->
            _new_lambda(lam.constants, lam.callables, lam.body, context)

\* Expression.from_numericish
from_numericish(thing) ==
    IF IsExpression(thing) THEN Expression(thing.symbols, thing.lambda_)
    ELSE IF IsRangedValue(thing) THEN Expression({}, LConst(thing))
    ELSE IF IsSymbol(thing) THEN Expression({thing.key}, LSym(thing.key))
    ELSE Expression({}, LConst(RangedValue_init(thing, thing, None, None)))

_get_symbols(thing) ==
    IF IsExpression(thing) THEN thing.symbols
    ELSE IF IsSymbol(thing) THEN {thing.key}
    ELSE {}

defer_operation_factory(lhs, operator, rhs) ==
    IF ~Callable(lhs) /\ ~Callable(rhs) THEN PyBinary(operator, lhs, rhs)
    ELSE Expression(_get_symbols(lhs) \cup _get_symbols(rhs),
                    LOp(operator, lhs, rhs))

(***************************************************************************)
(* Expression.substitute.  `substitutions` is a dict in iteration order:   *)
(* a sequence of [key, value] with distinct keys.                          *)
(***************************************************************************)
RECURSIVE SubstConstants(_), SubstCallables(_)

\* d[key] = value where the later entries of the dict are already in d
DictPutFirst(d, key, value) ==
    IF key \in DOMAIN d THEN d ELSE (key :> value) @@ d

\* the constants dict built by the loop of lines 369-377
SubstConstants(substitutions) ==
    IF substitutions = <<>> THEN EmptyDict
    ELSE IF Callable(Head(substitutions).value)
    THEN SubstConstants(Tail(substitutions))
    ELSE DictPutFirst(SubstConstants(Tail(substitutions)),
                      Head(substitutions).key, Head(substitutions).value)

\* the callables dict built by the same loop, in insertion order
SubstCallables(substitutions) ==
    IF substitutions = <<>> THEN <<>>
    ELSE IF Callable(Head(substitutions).value)
    THEN <<[key |-> Head(substitutions).key, func |-> Head(substitutions).value]>>
         \o SubstCallables(Tail(substitutions))
    ELSE SubstCallables(Tail(substitutions))

SeqRange(s) == {s[i] : i \in DOMAIN s}

\* lines 392-393: the symbols the new expression declares
new_symbols(self, constants, callables) ==
    (self.symbols \ DOMAIN constants)
        \cup UNION {c.func.symbols : c \in SeqRange(callables)}

\* substitute_return without the constant-folding exit of lines 397-398
substitute_return_deferred(self, constants, callables, symbols) ==
    Expression(symbols, LSubst(constants, callables, self.lambda_))

\* lines 395-400
substitute_return(self, constants, callables, symbols) ==
    IF symbols = {}
    THEN _new_lambda(constants, callables, self.lambda_, EmptyDict)
    ELSE Expression(symbols, LSubst(constants, callables, self.lambda_))

\* lines 379-400, with the substitutions sorted into constants and callables
substitute_sorted(self, constants, callables) ==
    \* line 392 reads expr.symbols of every callable: a bare Symbol has none
    IF \E c \in SeqRange(callables) : IsSymbol(c.func)
    THEN Err("AttributeError")
    ELSE substitute_return(self, constants, callables,
                           new_symbols(self, constants, callables))

substitute(self, substitutions) ==
    IF \E i \in DOMAIN substitutions : substitutions[i].key \notin self.symbols
    THEN Err("InvalidSubstitution")
    ELSE substitute_sorted(self, SubstConstants(substitutions),
                           SubstCallables(substitutions))

(***************************************************************************)
(* simplify_expression_pool.  The closure state of the function (touched,  *)
(* simplified) is threaded through the recursive _visit as a record st;    *)
(* st.err holds the exception being raised, st.ret the value returned, and *)
(* st.substituted lists the keys whose value was handed to substitute.     *)
(***************************************************************************)
\* the order in which Python iterates a set of symbols: one of the two
\* orders a set of at most two symbols can have
KeyOrder == <<"A", "B", "C", "D", "E">>

Reverse(s) == [i \in 1..Len(s) |-> s[Len(s) + 1 - i]]

IterSeq(S, rev) ==
    IF rev THEN Reverse(SelectSeq(KeyOrder, LAMBDA k : k \in S))
    ELSE SelectSeq(KeyOrder, LAMBDA k : k \in S)

\* context[key] with context = ChainMap(simplified, pool)
context_get(simplified, pool, key) ==
    IF key \in DOMAIN simplified THEN simplified[key] ELSE pool[key]

VisitInit ==
    [touched |-> {}, simplified |-> EmptyDict, err |-> None, ret |-> None,
     substituted |-> <<>>]

RECURSIVE _visit(_, _, _, _, _), VisitSymbols(_, _, _, _, _, _)

\* one entry of the dict comprehension: s: _visit(s.key, stack + [key]),
\* where r is the state _visit left
VisitSymbols_entry(pool, rev, syms, stack, r, subs) ==
    VisitSymbols(pool, rev, Tail(syms), stack, r,
                 Append(subs, [key |-> Head(syms), value |-> r.ret]))

\* the dict comprehension of lines 521-525: every symbol of the value whose
\* key is in the pool is visited, in iteration order; subs collects the
\* entries, and an exception ends it
VisitSymbols(pool, rev, syms, stack, st, subs) ==
    IF syms = <<>> \/ st.err /= None THEN [st |-> st, subs |-> subs]
    ELSE VisitSymbols_entry(pool, rev, syms, stack,
                            _visit(pool, rev, Head(syms), stack, st), subs)

\* lines 520, 527-528: simplified[key] = new; touched.add(key); return
visit_expression_store(key, st, new) ==
    IF IsErr(new)
    THEN [st EXCEPT !.err = new, !.substituted = Append(@, key)]
    ELSE [st EXCEPT !.simplified = (key :> new) @@ @,
                    !.touched = @ \cup {key},
                    !.ret = new,
                    !.substituted = Append(@, key)]

\* line 520: value.substitute({...}), r being what the comprehension left
visit_expression_substitute(key, value, r) ==
    IF r.st.err /= None THEN r.st
    ELSE visit_expression_store(key, r.st, substitute(value, r.subs))

\* lines 519-528
visit_expression(pool, rev, key, stack, st, value) ==
    visit_expression_substitute(key, value,
        VisitSymbols(pool, rev,
                     IterSeq({s \in value.symbols : s \in DOMAIN pool}, rev),
                     Append(stack, key), st, <<>>))

\* lines 534-536, r being the state the inner _visit left
visit_symbol_store(key, r) ==
    IF r.err /= None THEN r
    ELSE [r EXCEPT !.simplified = (key :> r.ret) @@ @,
                   !.touched = @ \cup {key}]

\* visit_symbol taking every Symbol for an independent one: the key it
\* points at is not visited
visit_symbol_terminal(pool, rev, key, stack, st, value) ==
    [st EXCEPT !.simplified = (key :> value) @@ @,
               !.touched = @ \cup {key},
               !.ret = value]

\* lines 532-540
visit_symbol(pool, rev, key, stack, st, value) ==
    IF value.key \in DOMAIN pool
    THEN visit_symbol_store(key,
             _visit(pool, rev, value.key, Append(stack, key), st))
    ELSE [st EXCEPT !.simplified = (key :> value) @@ @,
                    !.touched = @ \cup {key},
                    !.ret = value]

\* lines 511-542, with value = context[key]
visit_value(pool, rev, key, stack, st, value) ==
    IF ~Callable(value)
    THEN [st EXCEPT !.touched = @ \cup {key}, !.ret = value]
    ELSE IF IsExpression(value)
    THEN visit_expression(pool, rev, key, stack, st, value)
    ELSE IF IsSymbol(value)
    THEN visit_symbol(pool, rev, key, stack, st, value)
    ELSE [st EXCEPT !.err = Err("ImplementationError")]

\* _visit without the `touched` memo: a key reached again is simplified
\* again
_visit_unmemoized(pool, rev, key, stack, st) ==
    IF key \in SeqRange(stack)
    THEN [st EXCEPT !.err = Err("CircularDependency")]
    ELSE visit_value(pool, rev, key, stack, st,
                     context_get(st.simplified, pool, key))

\* lines 501-542
_visit(pool, rev, key, stack, st) ==
    IF key \in SeqRange(stack)
    THEN [st EXCEPT !.err = Err("CircularDependency")]
    ELSE IF key \in st.touched
    THEN [st EXCEPT !.ret = context_get(st.simplified, pool, key)]
    ELSE visit_value(pool, rev, key, stack, st,
                     context_get(st.simplified, pool, key))

RECURSIVE VisitAll(_, _, _, _)

\* lines 545-546: for key in pool: _visit(key, [])
VisitAll(pool, rev, keys, st) ==
    IF keys = <<>> \/ st.err /= None THEN st
    ELSE VisitAll(pool, rev, Tail(keys), _visit(pool, rev, Head(keys), <<>>, st))

\* what the function leaves: the exception, or the dict it returns (line 548)
simplify_result(st) ==
    IF st.err /= None THEN st.err ELSE [t |-> "dict", v |-> st.simplified]

\* pool_order is the iteration order of the pool dict
simplify_expression_pool(pool, pool_order, rev) ==
    simplify_result(VisitAll(pool, rev, pool_order, VisitInit))

(***************************************************************************)
(* The flattening pass (model2/flatten.py).  Objects are named; `prog`     *)
(* maps an object's name to its declarations:                              *)
(*   supers_bfs  the supers, nearest first (the object itself excluded)    *)
(*   objects     locals_by_type[Object]:  <<name, object>>                 *)
(*   replaces    locals_by_type[Replace]: [original_ref, replacement_obj]  *)
(*   links       locals_by_type[Link]:    [source_ref, target_ref]         *)
(*   params      locals_by_type[(str, int)]: <<ref, value>>                *)
(* Instances and Joints live in an arena `h` and are named by their index, *)
(* so that mutation in place and identity are explicit:                    *)
(*   insts, joints   the Instances and Joints created so far               *)
(*   ret             the Instance the last call of _build returned         *)
(*   err             the exception raised, if any                          *)
(*   applied         <<instance, object>> for each execution of line 52    *)
(*   replaced        one record per execution of lines 70-74               *)
(*   linked          one record per execution of lines 80-84               *)
(* A dict is a sequence of <<key, value>> in insertion order.  An instance *)
(* argument of 0 is Python's None; a name of NoName is None.               *)
(***************************************************************************)
NoName == ""

NoInstance == 0

\* a value of children_from_mods found where an Instance is expected
Literal == -1

\* the attribute lookup on such a value has failed
NoAttribute == -2

DictHas(d, key) == \E i \in DOMAIN d : d[i][1] = key

DictGet(d, key) == d[CHOOSE i \in DOMAIN d : d[i][1] = key][2]

\* d[key] = value: an existing key keeps its position
DictSet(d, key, value) ==
    IF DictHas(d, key)
    THEN [i \in DOMAIN d |-> IF d[i][1] = key THEN <<key, value>> ELSE d[i]]
    ELSE Append(d, <<key, value>>)

InSeq(x, s) == \E i \in DOMAIN s : s[i] = x

Instance(ref) ==
    [ref |-> ref, origin |-> "None",
     children_from_classes |-> <<>>, children_from_mods |-> <<>>,
     joints |-> <<>>, joined_to_me |-> <<>>]

Joint(link, instance, source_connected, target_connected, source_instance, target_instance) ==
    [link |-> link, instance |-> instance,
     source_connected |-> source_connected, target_connected |-> target_connected,
     source_instance |-> source_instance, target_instance |-> target_instance]

EmptyArena ==
    [insts |-> <<>>, joints |-> <<>>, ret |-> NoInstance, err |-> "None",
     applied |-> <<>>, replaced |-> <<>>, linked |-> <<>>]

Raise(h, kind) == [h EXCEPT !.err = kind]

\* Instance.children: children_from_mods laid over children_from_classes
children_get(inst, name) ==
    IF DictHas(inst.children_from_mods, name) THEN Literal
    ELSE IF DictHas(inst.children_from_classes, name)
         THEN DictGet(inst.children_from_classes, name)
         ELSE NoInstance

RECURSIVE get_ref_from_instance(_, _, _)

\* an instance, or NoInstance (KeyError), Literal, or NoAttribute
get_ref_from_instance(h, ref, instance) ==
    IF instance = NoInstance \/ instance = NoAttribute THEN instance
    ELSE IF ref = <<>> THEN instance
    ELSE IF instance = Literal THEN NoAttribute
    ELSE get_ref_from_instance(h, Tail(ref), children_get(h.insts[instance], Head(ref)))

\* the exception a failed lookup surfaces as
RefError(r) == IF r = NoInstance THEN "KeyError" ELSE "AttributeError"

\* the filter make_supers_match_filter((PIN, SIGNAL)) returns
_IS_A_PIN_OR_SIGNAL(prog, h, instance) ==
    \E i \in DOMAIN prog[h.insts[instance].origin].supers_bfs :
        prog[h.insts[instance].origin].supers_bfs[i] \in {"PIN", "SIGNAL"}

RECURSIVE dfs_with_ref(_, _, _), dfs_children(_, _, _, _)

\* the instance itself, then its class children depth first, in dict order
dfs_with_ref(h, instance, start_ref) ==
    <<<<start_ref, instance>>>>
        \o dfs_children(h, h.insts[instance].children_from_classes, 1, start_ref)

dfs_children(h, items, i, start_ref) ==
    IF i > Len(items) THEN <<>>
    ELSE dfs_with_ref(h, items[i][2], Append(start_ref, items[i][1]))
            \o dfs_children(h, items, i + 1, start_ref)

RECURSIVE filter_connectable(_, _, _)

filter_connectable(prog, h, pairs) ==
    IF pairs = <<>> THEN <<>>
    ELSE IF _IS_A_PIN_OR_SIGNAL(prog, h, Head(pairs)[2])
         THEN <<Head(pairs)>> \o filter_connectable(prog, h, Tail(pairs))
         ELSE filter_connectable(prog, h, Tail(pairs))

ref_and_connectable_pairs(prog, h, instance) ==
    filter_connectable(prog, h, dfs_with_ref(h, instance, <<>>))

\* Instance(ref=ref): a fresh Instance, which becomes `instance`
new_instance(h, ref) ==
    [h EXCEPT !.insts = Append(@, Instance(ref)), !.ret = Len(h.insts) + 1]

build_ref(h, name, parent) ==
    IF name /= NoName /\ parent /= NoInstance
    THEN Append(h.insts[parent].ref, name)
    ELSE <<>>

\* instance.origin = obj
set_origin(obj, instance, h) ==
    [h EXCEPT !.insts[instance].origin = obj,
              !.applied = Append(@, <<instance, obj>>)]

\* children_from_classes.update({name: child})
children_update(name, instance, h) ==
    IF h.err /= "None" THEN h
    ELSE [h EXCEPT !.insts[instance].children_from_classes = DictSet(@, name, h.ret)]

RECURSIVE stable_sort_by_len(_)

\* where sorted() puts x: behind every element whose key is not larger
insert_by_len(s, x) ==
    SelectSeq(s, LAMBDA y : Len(y.original_ref) <= Len(x.original_ref))
        \o <<x>>
        \o SelectSeq(s, LAMBDA y : Len(y.original_ref) > Len(x.original_ref))

\* sorted(replacements, key=lambda x: len(x[1].original_ref))
stable_sort_by_len(s) ==
    IF s = <<>> THEN <<>>
    ELSE insert_by_len(stable_sort_by_len(SubSeq(s, 1, Len(s) - 1)), s[Len(s)])

Min2(a, b) == IF a <= b THEN a ELSE b

\* join_pair without line 99: the target leaf gets no back-reference
join_pair_source_only(link, instance, source_connected, target_connected, source, target, h) ==
    IF source[1] /= target[1] THEN Raise(h, "AssertionError")
    ELSE [h EXCEPT
            !.joints = Append(@, Joint(link, instance, source_connected,
                                       target_connected, source[2], target[2])),
            !.insts = [i \in DOMAIN @ |->
                [@[i] EXCEPT
                    !.joined_to_me =
                        @ \o (IF i = source[2] THEN <<Len(h.joints) + 1>> ELSE <<>>),
                    !.joints =
                        @ \o (IF i = instance THEN <<Len(h.joints) + 1>> ELSE <<>>)]]]

\* the body of the zip loop: one Joint, appended to its three lists
join_pair(link, instance, source_connected, target_connected, source, target, h) ==
    IF source[1] /= target[1] THEN Raise(h, "AssertionError")
    ELSE [h EXCEPT
            !.joints = Append(@, Joint(link, instance, source_connected,
                                       target_connected, source[2], target[2])),
            !.insts = [i \in DOMAIN @ |->
                [@[i] EXCEPT
                    !.joined_to_me =
                        @ \o (IF i = source[2] THEN <<Len(h.joints) + 1>> ELSE <<>>)
                          \o (IF i = target[2] THEN <<Len(h.joints) + 1>> ELSE <<>>),
                    !.joints =
                        @ \o (IF i = instance THEN <<Len(h.joints) + 1>> ELSE <<>>)]]]

RECURSIVE zip_joints(_, _, _, _, _, _, _, _)

\* for (source_ref, source_instance), (target_ref, target_instance) in zip(...)
zip_joints(link, instance, source_connected, target_connected, sources, targets, k, h) ==
    IF h.err /= "None" \/ k > Min2(Len(sources), Len(targets)) THEN h
    ELSE zip_joints(link, instance, source_connected, target_connected,
                    sources, targets, k + 1,
                    join_pair(link, instance, source_connected, target_connected,
                              sources[k], targets[k], h))

link_enumerated(link, instance, source_connected, target_connected, sources, targets, h) ==
    zip_joints(link, instance, source_connected, target_connected, sources, targets, 1,
               [h EXCEPT !.linked = Append(@,
                    [instance |-> instance, link |-> link,
                     sources |-> Len(sources), targets |-> Len(targets),
                     joints |-> Len(h.joints)])])

link_connected(prog, link, instance, source_connected, target_connected, h) ==
    IF source_connected <= NoInstance THEN Raise(h, RefError(source_connected))
    ELSE IF target_connected <= NoInstance THEN Raise(h, RefError(target_connected))
    ELSE link_enumerated(link, instance, source_connected, target_connected,
                         ref_and_connectable_pairs(prog, h, source_connected),
                         ref_and_connectable_pairs(prog, h, target_connected), h)

\* one pass of `for _, link in links`
visit_link(prog, obj, i, instance, h) ==
    link_connected(prog, <<obj, i>>, instance,
        get_ref_from_instance(h, prog[obj].links[i].source_ref, instance),
        get_ref_from_instance(h, prog[obj].links[i].target_ref, instance), h)

RECURSIVE visit_links(_, _, _, _, _)

visit_links(prog, obj, i, instance, h) ==
    IF h.err /= "None" \/ i > Len(prog[obj].links) THEN h
    ELSE visit_links(prog, obj, i + 1, instance, visit_link(prog, obj, i, instance, h))

param_set(ref, value, to_mod, h) ==
    IF to_mod <= NoInstance THEN Raise(h, RefError(to_mod))
    ELSE [h EXCEPT !.insts[to_mod].children_from_mods = DictSet(@, ref[Len(ref)], value)]

RECURSIVE visit_params(_, _, _, _, _)

\* for ref, value in params
visit_params(prog, obj, i, instance, h) ==
    IF h.err /= "None" \/ i > Len(prog[obj].params) THEN h
    ELSE visit_params(prog, obj, i + 1, instance,
            param_set(prog[obj].params[i][1], prog[obj].params[i][2],
                get_ref_from_instance(h,
                    SubSeq(prog[obj].params[i][1], 1, Len(prog[obj].params[i][1]) - 1),
                    instance),
                h))

build_return(instance, h) == IF h.err /= "None" THEN h ELSE [h EXCEPT !.ret = instance]

RECURSIVE _build(_, _, _, _, _, _)
RECURSIVE visit_children(_, _, _, _, _)
RECURSIVE visit_replacements(_, _, _, _, _, _)

\* one entry of the dict comprehension over child_objects; building a child
\* reads of its parent only the ref, so storing each child as it is built
\* leaves the same dict as the update() of the finished comprehension
visit_children(prog, obj, i, instance, h) ==
    IF h.err /= "None" \/ i > Len(prog[obj].objects) THEN h
    ELSE visit_children(prog, obj, i + 1, instance,
            children_update(prog[obj].objects[i][1], instance,
                _build(prog, prog[obj].objects[i][2], prog[obj].objects[i][1],
                       instance, NoInstance, h)))

\* the body of `for _, replace in replacements_deepest_first`
visit_replacement(prog, layer, replace, instance, instance_to_replace, h) ==
    IF instance_to_replace = NoInstance THEN Raise(h, "KeyError")
    ELSE IF instance_to_replace < NoInstance THEN Raise(h, "AttributeError")
    ELSE _build(prog, replace.replacement_obj, NoName, NoInstance, instance_to_replace,
            [h EXCEPT !.replaced = Append(@,
                [layer |-> layer, instance |-> instance,
                 original_ref |-> replace.original_ref,
                 replacement_obj |-> replace.replacement_obj,
                 instance_to_replace |-> instance_to_replace])])

visit_replacements(prog, layer, sorted, i, instance, h) ==
    IF h.err /= "None" \/ i > Len(sorted) THEN h
    ELSE visit_replacements(prog, layer, sorted, i + 1, instance,
            visit_replacement(prog, layer, sorted[i], instance,
                get_ref_from_instance(h, sorted[i].original_ref, instance), h))

\* lines 52-109: the layer `obj` is written onto `instance`
build_layer(prog, obj, instance, h) ==
    build_return(instance,
        visit_params(prog, obj, 1, instance,
            visit_links(prog, obj, 1, instance,
                visit_replacements(prog, Len(h.applied) + 1,
                    stable_sort_by_len(prog[obj].replaces), 1, instance,
                    visit_children(prog, obj, 1, instance,
                        set_origin(obj, instance, h))))))

build_down(prog, obj, h) ==
    IF h.err /= "None" THEN h ELSE build_layer(prog, obj, h.ret, h)

\* lines 42-47: the instance the layer is written onto
build_base(prog, obj, name, parent, instance, h) ==
    IF prog[obj].supers_bfs /= <<>>
    THEN _build(prog, prog[obj].supers_bfs[1], name, parent, instance, h)
    ELSE new_instance(h, build_ref(h, name, parent))

_build(prog, obj, name, parent, instance, h) ==
    IF h.err /= "None" THEN h
    ELSE IF instance /= NoInstance /\ InSeq(obj, prog[h.insts[instance].origin].supers_bfs)
         THEN [h EXCEPT !.ret = instance]
         ELSE build_down(prog, obj, build_base(prog, obj, name, parent, instance, h))

build(prog, obj) == _build(prog, obj, "entry", NoInstance, NoInstance, EmptyArena)

(***************************************************************************)
(* Specification of the RangedValue operations: operands are built by the  *)
(* constructor, an operation is applied, and a result may be fed back as   *)
(* the next left operand.                                                  *)
(***************************************************************************)
MaxMag == 2

MaxFeed == 4

Mags == {Int2Rat(i) : i \in -MaxMag..MaxMag}

InUnits == {0, 1}

PrettyV == [t |-> "str", v |-> "V"]

\* what a caller hands the constructor as an endpoint
EndpointArgs == {Num(m) : m \in Mags} \cup {Quantity(m, u) : m \in Mags, u \in InUnits}

\* RangedValues built from two plain endpoints, given in either order
BuiltRangedValues ==
    {RangedValue_init(Num(x), Num(y), UnitArg(u), None) : x \in Mags, y \in Mags, u \in InUnits}

Operands == BuiltRangedValues \cup {Num(m) : m \in Mags}

\* either nothing is built yet, or two operands are at hand
RVInit ==
    /\ \/ rv_a = None /\ rv_b = None
       \/ rv_a \in Operands /\ rv_b \in Operands
    /\ rv_op = "none"
    /\ rv_out = None
    /\ ExIdle /\ SPIdle /\ FLIdle

\* RangedValue(val_a, val_b, unit, pretty_unit)
RVConstruct ==
    /\ rv_op = "none"
    /\ rv_a = None
    /\ \E val_a \in EndpointArgs, val_b \in EndpointArgs \cup {None},
          unit \in {None} \cup {UnitArg(u) : u \in InUnits},
          pretty \in {None, PrettyV} :
          /\ rv_a' = val_a
          /\ rv_b' = val_b
          /\ rv_out' = RangedValue_init(val_a, val_b, unit, pretty)
    /\ rv_op' = "init"

\* lhs <op> rhs, at least one of them a RangedValue or both plain numbers
RVBinary ==
    /\ rv_op = "none"
    /\ rv_a /= None
    /\ \E op \in BinOps :
          /\ rv_op' = op
          /\ rv_out' = PyBinary(op, rv_a, rv_b)
    /\ UNCHANGED <<rv_a, rv_b>>

\* -rv_a
RVNeg ==
    /\ rv_op = "none"
    /\ rv_a /= None
    /\ rv_op' = "neg"
    /\ rv_out' = PyNeg(rv_a)
    /\ UNCHANGED <<rv_a, rv_b>>

SmallRat(x) == Abs(x.n) <= MaxFeed /\ x.d <= 2

\* the result becomes the left operand of a next operation
RVFeed ==
    /\ rv_op /= "none"
    /\ IsRangedValue(rv_out)
    /\ SmallRat(rv_out.min_val) /\ SmallRat(rv_out.max_val)
    /\ rv_out.unit \in InUnits
    /\ rv_a' = rv_out
    /\ rv_b' \in Operands
    /\ rv_op' = "none"
    /\ rv_out' = None

RVNext ==
    \/ RVConstruct /\ UNCHANGED <<ex_vars, sp_vars, fl_vars>>
    \/ RVBinary /\ UNCHANGED <<ex_vars, sp_vars, fl_vars>>
    \/ RVNeg /\ UNCHANGED <<ex_vars, sp_vars, fl_vars>>
    \/ RVFeed /\ UNCHANGED <<ex_vars, sp_vars, fl_vars>>

SpecRV == RVInit /\ [][RVNext]_vars

(***************************************************************************)
(* Specification of Expression.substitute: an expression built by          *)
(* defer_operation_factory and a dict of substitutions are drawn, and      *)
(* substitute is called.                                                   *)
(***************************************************************************)
ExKeys == {"A", "B", "C"}

RV22 == RangedValue_init(Num(Int2Rat(2)), Num(Int2Rat(2)), None, None)

RV13V == RangedValue_init(Num(Int2Rat(1)), Num(Int2Rat(3)), UnitArg(1), None)

One == Num(Int2Rat(1))

\* x + 1, 1 / x, x + y, x - y and (x + 1) * y over the symbols
ExExpressions ==
    {defer_operation_factory(Symbol(x), "add", One) : x \in ExKeys}
    \cup {defer_operation_factory(One, "truediv", Symbol(x)) : x \in ExKeys}
    \cup {defer_operation_factory(Symbol(x), op, Symbol(y)) :
              x \in {"A"}, y \in {"B", "C"}, op \in {"add", "sub"}}
    \cup {defer_operation_factory(
              defer_operation_factory(Symbol("A"), "add", One), "mul", Symbol(y)) :
              y \in {"A", "B"}}
    \cup {from_numericish(Symbol("A")), from_numericish(One)}

\* what a symbol may be substituted by
ExValues ==
    {Num(Int2Rat(2)), Num(Int2Rat(0)), RV22, RV13V, Symbol("C"),
     defer_operation_factory(Symbol("C"), "add", One),
     defer_operation_factory(Symbol("B"), "add", One),
     from_numericish(One)}

\* dicts of at most two substitutions, in every order
ExSubstitutions ==
    {<<>>}
    \cup {<<[key |-> k, value |-> v]>> : k \in ExKeys, v \in ExValues}
    \cup {<<[key |-> k[1], value |-> v1], [key |-> k[2], value |-> v2]>> :
              k \in {<<"A", "B">>, <<"B", "A">>}, v1 \in ExValues, v2 \in ExValues}

ExInit ==
    /\ ex_e \in ExExpressions
    /\ ex_subs \in ExSubstitutions
    /\ ex_out = None
    /\ ex_ctx = <<>> /\ ex_val = None
    /\ RVIdle /\ SPIdle /\ FLIdle

\* ex_e.substitute(ex_subs)
Substitute ==
    /\ ex_out = None
    /\ ex_out' = substitute(ex_e, ex_subs)
    /\ UNCHANGED <<ex_e, ex_subs, ex_ctx, ex_val>>

\* the values a context gives a symbol
CtxValues == {Num(Int2Rat(1)), Num(Int2Rat(2))}

\* ex_out(ex_ctx): the returned Expression is called with a context that
\* supplies every symbol it declares
Evaluate ==
    /\ ex_val = None
    /\ IsExpression(ex_out)
    /\ \E ctx \in [ex_out.symbols -> CtxValues] :
          /\ ex_ctx' = ctx
          /\ ex_val' = Call(ex_out, ctx)
    /\ UNCHANGED <<ex_e, ex_subs, ex_out>>

ExNext ==
    \/ Substitute /\ UNCHANGED <<rv_vars, sp_vars, fl_vars>>
    \/ Evaluate /\ UNCHANGED <<rv_vars, sp_vars, fl_vars>>

SpecExpr == ExInit /\ [][ExNext]_vars

(***************************************************************************)
(* Specification of simplify_expression_pool: a pool is drawn, with the    *)
(* iteration order of its dict and of its symbol sets, and simplified.     *)
(***************************************************************************)
PoolKeys == {"B", "C", "D"}

PoolSymbols == {"A", "B", "C", "D"}

Three == Num(Int2Rat(3))

\* constants (3, 0 and [1, 3] V), Symbols, x + 1, 1 / x and x + y
PoolValues ==
    {Three, Num(Int2Rat(0)), RV13V}
    \cup {Symbol(x) : x \in PoolSymbols}
    \cup {defer_operation_factory(Symbol(x), "add", One) : x \in PoolSymbols}
    \cup {defer_operation_factory(One, "truediv", Symbol(x)) : x \in PoolSymbols}
    \cup {defer_operation_factory(Symbol(q[1]), "add", Symbol(q[2])) :
              q \in {<<"A", "B">>, <<"A", "C">>, <<"A", "D">>,
                     <<"B", "C">>, <<"B", "D">>, <<"C", "D">>}}

\* the pool of the docstring: B = A + 1, C = B + 2, D = 3, E = D + 4
ExamplePool ==
    [B |-> defer_operation_factory(Symbol("A"), "add", One),
     C |-> defer_operation_factory(Symbol("B"), "add", Num(Int2Rat(2))),
     D |-> Three,
     E |-> defer_operation_factory(Symbol("D"), "add", Num(Int2Rat(4)))]

Perms(S) ==
    {p \in [1..Cardinality(S) -> S] : \A i, j \in DOMAIN p : i /= j => p[i] /= p[j]}

SPInit ==
    /\ \/ \E K \in SUBSET PoolKeys : sp_pool \in [K -> PoolValues]
       \/ sp_pool = ExamplePool
    /\ sp_order \in Perms(DOMAIN sp_pool)
    /\ sp_rev \in BOOLEAN
    /\ sp_out = None
    /\ sp_trace = <<>>
    /\ sp_key = "" /\ sp_ctx = <<>> /\ sp_val = None
    /\ RVIdle /\ ExIdle /\ FLIdle

\* simplify_expression_pool(sp_pool)
Simplify ==
    /\ sp_out = None
    /\ \E st \in {VisitAll(sp_pool, sp_rev, sp_order, VisitInit)} :
          /\ sp_out' = simplify_result(st)
          /\ sp_trace' = st.substituted
    /\ UNCHANGED <<sp_pool, sp_order, sp_rev, sp_key, sp_ctx, sp_val>>

\* simplified[key](ctx): a residual Expression of the result is called with
\* a context that supplies the symbols it declares that the pool leaves
\* undefined
EvaluateResidual ==
    /\ sp_val = None
    /\ sp_out.t = "dict"
    /\ \E key \in DOMAIN sp_out.v :
          /\ IsExpression(sp_out.v[key])
          /\ \E ctx \in [sp_out.v[key].symbols \ DOMAIN sp_pool -> CtxValues] :
                /\ sp_key' = key
                /\ sp_ctx' = ctx
                /\ sp_val' = Call(sp_out.v[key], ctx)
    /\ UNCHANGED <<sp_pool, sp_order, sp_rev, sp_out, sp_trace>>

SPNext ==
    \/ Simplify /\ UNCHANGED <<rv_vars, ex_vars, fl_vars>>
    \/ EvaluateResidual /\ UNCHANGED <<rv_vars, ex_vars, fl_vars>>

SpecPool == SPInit /\ [][SPNext]_vars

(***************************************************************************)
(* Specification of the flattening pass: build is handed a root object     *)
(* whose children, replacements, links and params are drawn from the       *)
(* declarations below, over a fixed library of objects.                    *)
(***************************************************************************)
Object(supers_bfs, objects, replaces, links, params) ==
    [supers_bfs |-> supers_bfs, objects |-> objects, replaces |-> replaces,
     links |-> links, params |-> params]

Replace(original_ref, replacement_obj) ==
    [original_ref |-> original_ref, replacement_obj |-> replacement_obj]

Link(source_ref, target_ref) == [source_ref |-> source_ref, target_ref |-> target_ref]

\* the builtins, a pin, and modules: One and Two hold pins; X links its two
\* pins and Y extends it; Bare has no super and BareY extends it; Outer
\* holds an X and Outer2 extends Outer, replacing the X by a Y
Library ==
       ("PIN"    :> Object(<<>>, <<>>, <<>>, <<>>, <<>>))
    @@ ("SIGNAL" :> Object(<<>>, <<>>, <<>>, <<>>, <<>>))
    @@ ("MODULE" :> Object(<<>>, <<>>, <<>>, <<>>, <<>>))
    @@ ("P"      :> Object(<<"PIN">>, <<>>, <<>>, <<>>, <<>>))
    @@ ("One"    :> Object(<<"MODULE">>, <<<<"p1", "P">>>>, <<>>, <<>>, <<>>))
    @@ ("Two"    :> Object(<<"MODULE">>, <<<<"p1", "P">>, <<"p2", "P">>>>, <<>>, <<>>, <<>>))
    @@ ("X"      :> Object(<<"MODULE">>, <<<<"p1", "P">>, <<"p2", "P">>>>, <<>>,
                       <<Link(<<"p1">>, <<"p2">>)>>, <<<<<<"value">>, 1>>>>))
    @@ ("Y"      :> Object(<<"X", "MODULE">>, <<<<"p3", "P">>>>, <<>>,
                       <<Link(<<"p1">>, <<"p3">>)>>, <<>>))
    @@ ("Bare"   :> Object(<<>>, <<<<"p1", "P">>>>, <<>>, <<>>, <<>>))
    @@ ("BareY"  :> Object(<<"Bare">>, <<<<"p2", "P">>>>, <<>>, <<>>, <<>>))
    @@ ("Outer"  :> Object(<<"MODULE">>, <<<<"b", "X">>>>, <<>>, <<>>, <<>>))
    @@ ("Outer2" :> Object(<<"Outer", "MODULE">>, <<>>, <<Replace(<<"b">>, "Y")>>,
                       <<>>, <<>>))

Program(root) == ("Root" :> root) @@ Library

ChildClasses == {"One", "Two", "X", "Y", "Bare", "Outer"}

Replacements ==
    {Replace(<<"a">>, "Y"), Replace(<<"a">>, "X"), Replace(<<"a">>, "BareY"),
     Replace(<<"a">>, "Outer2"), Replace(<<"a", "b">>, "Y"), Replace(<<"c">>, "Two")}

\* no directive, one, or two distinct ones in either order
ReplaceLists ==
    {<<>>} \cup {<<r>> : r \in Replacements}
           \cup {<<r[1], r[2]>> : r \in {q \in Replacements \X Replacements : q[1] /= q[2]}}

LinkLists ==
    {<<>>, <<Link(<<"a">>, <<"c">>)>>, <<Link(<<"a", "p1">>, <<"c", "p1">>)>>,
     <<Link(<<"a", "p1">>, <<"c">>)>>, <<Link(<<"a", "b">>, <<"c">>)>>}

ParamLists == {<<>>, <<<<<<"a", "value">>, 2>>>>, <<<<<<"c", "p1">>, 2>>>>}

Roots ==
    {Object(<<"MODULE">>, <<<<"a", ca>>, <<"c", cc>>>>, rs, ls, ps) :
        ca \in ChildClasses, cc \in ChildClasses, rs \in ReplaceLists,
        ls \in LinkLists, ps \in ParamLists}

FLInit ==
    /\ fl_root \in Roots
    /\ fl_out = None
    /\ RVIdle /\ ExIdle /\ SPIdle

\* build(obj)
Build ==
    /\ fl_out = None
    /\ fl_out' = build(Program(fl_root), "Root")
    /\ UNCHANGED fl_root

FLNext == Build /\ UNCHANGED <<rv_vars, ex_vars, sp_vars>>

SpecBuild == FLInit /\ [][FLNext]_vars

(***************************************************************************)
(* Claims about simplify_expression_pool, checked under SpecPool.          *)
(***************************************************************************)
\* the keys of the pool that the value of key k refers to
PoolDeps(pool, k) ==
    IF IsExpression(pool[k]) THEN pool[k].symbols \cap DOMAIN pool
    ELSE IF IsSymbol(pool[k]) THEN {pool[k].key} \cap DOMAIN pool
    ELSE {}

PoolDepsOf(pool, S) == UNION {PoolDeps(pool, k) : k \in S}

RECURSIVE PoolReach(_, _)
PoolReach(pool, S) ==
    IF PoolDepsOf(pool, S) \subseteq S THEN S
    ELSE PoolReach(pool, S \cup PoolDepsOf(pool, S))

\* some key depends on itself, directly or transitively
HasCycle(pool) ==
    \E k \in DOMAIN pool : k \in PoolReach(pool, PoolDeps(pool, k))

Simplified == sp_out /= None

\* C1 as stated: a pool in which some key depends on itself, directly or
\* transitively through keys of the pool, makes simplify_expression_pool
\* fail with a CircularDependency error.
C1_CycleRaisesCircular ==
    (Simplified /\ HasCycle(sp_pool)) => sp_out = Err("CircularDependency")

\* C1 as amended: a pool in which some key depends on itself never yields
\* a result; simplify_expression_pool fails with a CircularDependency
\* error, or with the error that substitute raised for a key whose
\* simplification completed before a key of the cycle was visited again.
C1_CycleNeverReturns ==
    (Simplified /\ HasCycle(sp_pool)) =>
        /\ IsErr(sp_out)
        /\ sp_out.kind /= "CircularDependency" =>
              /\ sp_trace /= <<>>
              /\ sp_out.kind \in {"ZeroDivisionError", "DimensionalityError",
                                   "AttributeError"}

\* a transitive cycle (B is a Symbol for C, C = B + 1) was reported
C1_Witness ==
    /\ Simplified
    /\ "B" \in DOMAIN sp_pool /\ "C" \in DOMAIN sp_pool
    /\ sp_pool["B"] = Symbol("C")
    /\ sp_pool["C"] = defer_operation_factory(Symbol("B"), "add", One)
    /\ sp_out = Err("CircularDependency")

\* C2: when simplify_expression_pool succeeds, the mapping it returns has
\* exactly the keys of the pool, a key with a plain constant mapping to that
\* constant.
C2_SameKeys ==
    (Simplified /\ sp_out.t = "dict") =>
        /\ DOMAIN sp_out.v = DOMAIN sp_pool
        /\ \A k \in DOMAIN sp_pool :
              ~Callable(sp_pool[k]) => sp_out.v[k] = sp_pool[k]

\* C3: for the pool B = A + 1, C = B + 2, D = 3, E = D + 4 the result holds
\* B and C as residual expressions over exactly {A}, D == 3 and E == 7; and
\* every residual Expression of any result declares only symbols whose keys
\* are absent from the pool.
C3_ResidualSymbols ==
    (Simplified /\ sp_out.t = "dict") =>
        /\ \A k \in DOMAIN sp_out.v :
              IsExpression(sp_out.v[k]) =>
                  sp_out.v[k].symbols \cap DOMAIN sp_pool = {}
        /\ sp_pool = ExamplePool =>
              /\ DOMAIN sp_out.v = {"B", "C", "D", "E"}
              /\ IsExpression(sp_out.v["B"]) /\ sp_out.v["B"].symbols = {"A"}
              /\ IsExpression(sp_out.v["C"]) /\ sp_out.v["C"].symbols = {"A"}
              /\ sp_out.v["D"] = Three
              /\ sp_out.v["E"] = Num(Int2Rat(7))

(***************************************************************************)
(* Claims about Expression.substitute, checked under SpecExpr.             *)
(***************************************************************************)
Substituted == ex_out /= None

SubsKeys == {ex_subs[i].key : i \in DOMAIN ex_subs}

SubsValue(k) == (CHOOSE i \in DOMAIN ex_subs : ex_subs[i].key = k)

\* the substituted values as a context
SubsContext == [k \in SubsKeys |-> ex_subs[SubsValue(k)].value]

\* the symbols left once the constants are taken out and the symbols of the
\* substituted expressions are added
SymbolsLeft ==
    (ex_e.symbols \ {k \in SubsKeys : ~Callable(SubsContext[k])})
        \cup UNION {SubsContext[k].symbols :
                       k \in {j \in SubsKeys : IsExpression(SubsContext[j])}}

\* every symbol of the expression is substituted and none remains
FullySubstituted ==
    /\ SubsKeys = ex_e.symbols
    /\ \A k \in SubsKeys : ~IsSymbol(SubsContext[k])
    /\ SymbolsLeft = {}

\* C4: substitute, given a substitution for every symbol of the expression
\* such that no symbol remains, returns a concrete (non-callable) value, the
\* expression evaluated on the substituted values; and
\* (Symbol('a') + 1).substitute({Symbol('a'): RangedValue(2, 2)}) is
\* RangedValue(3, 3).
C4_FullSubstitution ==
    /\ (Substituted /\ FullySubstituted) =>
          /\ ~Callable(ex_out)
          /\ ex_out = Call(ex_e, SubsContext)
    /\ (/\ Substituted
        /\ ex_e = defer_operation_factory(Symbol("A"), "add", One)
        /\ ex_subs = <<[key |-> "A", value |-> RV22]>>) =>
          ex_out = MkRangedValue(Int2Rat(3), Int2Rat(3), _UNITLESS, None)

\* x + y with both symbols substituted by constants was folded to a value
C4_Witness ==
    /\ Substituted
    /\ ex_e = defer_operation_factory(Symbol("A"), "add", Symbol("B"))
    /\ ex_subs = <<[key |-> "B", value |-> RV22],
                   [key |-> "A", value |-> Num(Int2Rat(2))]>>
    /\ ex_out = MkRangedValue(Int2Rat(4), Int2Rat(4), _UNITLESS, None)

(***************************************************************************)
(* Claims about build, checked under SpecBuild.                            *)
(***************************************************************************)
Built == fl_out /= None

Completed == Built /\ fl_out.err = "None"

\* the directive logged at i is the last one applied to its instance
LastReplacement(i) ==
    \A j \in DOMAIN fl_out.replaced :
        j > i => fl_out.replaced[j].instance_to_replace
                    /= fl_out.replaced[i].instance_to_replace

\* C5: a build that resolved a link whose source and target endpoints
\* enumerate different numbers of pin/signal instances has failed with a
\* StructuralMismatch error: it has not completed with joints for a prefix
\* of the leaves.
C5_MismatchRaises ==
    Built =>
        \A i \in DOMAIN fl_out.linked :
            fl_out.linked[i].sources /= fl_out.linked[i].targets
                => fl_out.err = "StructuralMismatch"

\* C6: after a completed build, the instance a replacement directive of the
\* root object was applied to is still the instance found at original_ref
\* from the root, and its origin is the directive's replacement object.
C6_ReplacedInPlace ==
    Completed =>
        \A i \in DOMAIN fl_out.replaced :
            fl_out.replaced[i].instance = fl_out.ret /\ LastReplacement(i)
                => /\ get_ref_from_instance(fl_out, fl_out.replaced[i].original_ref,
                                            fl_out.ret)
                        = fl_out.replaced[i].instance_to_replace
                   /\ fl_out.insts[fl_out.replaced[i].instance_to_replace].origin
                        = fl_out.replaced[i].replacement_obj

\* C7: during a build no object layer is applied twice to the same
\* Instance, and no link of a layer is resolved twice on the same Instance.
C7_NoLayerTwice ==
    Built =>
        /\ \A i, j \in DOMAIN fl_out.applied :
                i /= j => fl_out.applied[i] /= fl_out.applied[j]
        /\ \A i, j \in DOMAIN fl_out.linked :
                i /= j => \/ fl_out.linked[i].instance /= fl_out.linked[j].instance
                          \/ fl_out.linked[i].link /= fl_out.linked[j].link

\* C8: within one application of an object layer, the replacement
\* directives are applied in order of decreasing length of original_ref: a
\* directive for a.b is applied before a directive for a.
C8_DeepestFirst ==
    Built =>
        \A i, j \in DOMAIN fl_out.replaced :
            i < j /\ fl_out.replaced[i].layer = fl_out.replaced[j].layer
                => Len(fl_out.replaced[i].original_ref)
                        >= Len(fl_out.replaced[j].original_ref)

(***************************************************************************)
(* Claims about RangedValue, checked under SpecRV.                         *)
(***************************************************************************)
Ordered(rv) == IsRangedValue(rv) => RLe(rv.min_val, rv.max_val)

\* C9: every RangedValue has min_val <= max_val: after construction from
\* two endpoints in either order, and as the result (and the operands) of
\* +, -, *, / and unary minus.
C9_MinLeMax == Ordered(rv_out) /\ Ordered(rv_a) /\ Ordered(rv_b)

\* a RangedValue was built from endpoints given in decreasing order
C9_Witness ==
    /\ rv_op = "init"
    /\ rv_a = Num(Int2Rat(2)) /\ rv_b = Quantity(Int2Rat(-1), _UNITLESS)
    /\ IsRangedValue(rv_out)
    /\ rv_out.min_val = Int2Rat(-1) /\ rv_out.max_val = Int2Rat(2)

\* a - a was computed
SelfSubtracted ==
    rv_op = "sub" /\ IsRangedValue(rv_a) /\ rv_b = rv_a

Width(rv) == RSub(rv.max_val, rv.min_val)

IsZeroRange(rv) == RIsZero(rv.min_val) /\ RIsZero(rv.max_val)

\* C10 as stated: a - a is [0, 0] iff a.tolerance == 0, and otherwise the
\* width of a - a is 2 * a.tolerance.
C10_WidthTwiceTolerance ==
    SelfSubtracted =>
        /\ IsRangedValue(rv_out)
        /\ IsZeroRange(rv_out) <=> RIsZero(tolerance(rv_a))
        /\ ~RIsZero(tolerance(rv_a)) =>
              Width(rv_out) = RMul(Int2Rat(2), tolerance(rv_a))

\* C10 as amended: a - a is [0, 0] iff a.tolerance == 0, and the width of
\* a - a is 4 * a.tolerance (its own tolerance is 2 * a.tolerance).
C10_WidthFourTimesTolerance ==
    SelfSubtracted =>
        /\ IsRangedValue(rv_out)
        /\ IsZeroRange(rv_out) <=> RIsZero(tolerance(rv_a))
        /\ Width(rv_out) = RMul(Int2Rat(4), tolerance(rv_a))
        /\ tolerance(rv_out) = RMul(Int2Rat(2), tolerance(rv_a))

\* a - a was computed for a = [1, 2]
C10_Witness ==
    /\ SelfSubtracted
    /\ rv_a.min_val = Int2Rat(1) /\ rv_a.max_val = Int2Rat(2)
    /\ rv_out.min_val = Int2Rat(-1) /\ rv_out.max_val = Int2Rat(1)

\* an operand of a subtraction as an interval: a number n is [n, n]
OperandMin(x) == IF IsRangedValue(x) THEN x.min_val ELSE x.v

OperandMax(x) == IF IsRangedValue(x) THEN x.max_val ELSE x.v

\* lhs - rhs was computed with a RangedValue on at least one side, and it
\* returned a RangedValue
Subtracted ==
    /\ rv_op = "sub"
    /\ IsRangedValue(rv_a) \/ IsRangedValue(rv_b)
    /\ IsRangedValue(rv_out)

\* C11: lhs - rhs is the interval [lhs.min - rhs.max, lhs.max - rhs.min]
\* for RangedValue - RangedValue, RangedValue - number and
\* number - RangedValue, a number n being the interval [n, n].
C11_SubtractionInterval ==
    Subtracted =>
        /\ rv_out.min_val = RSub(OperandMin(rv_a), OperandMax(rv_b))
        /\ rv_out.max_val = RSub(OperandMax(rv_a), OperandMin(rv_b))

\* the Expression substitute returned was called
Evaluated == ex_val /= None

\* the substitutions taken in the order o of their positions
SubsInOrder(o) == [i \in DOMAIN ex_subs |-> ex_subs[o[i]]]

\* two or more of the substitutions are callable
SeveralCallables ==
    Cardinality({i \in DOMAIN ex_subs : Callable(ex_subs[i].value)}) >= 2

\* C12: the value of an expression produced by substitute does not depend
\* on the order in which its callable substitutions are evaluated: with two
\* or more callable entries, every iteration order of the substitution
\* mapping gives the same result or the same error.
C12_OrderIndependent ==
    (Evaluated /\ SeveralCallables) =>
        \A o \in Perms(DOMAIN ex_subs) :
            Call(substitute(ex_e, SubsInOrder(o)), ex_ctx) = ex_val

\* how often x occurs in the sequence s
Occurrences(s, x) == Cardinality({i \in DOMAIN s : s[i] = x})

\* C13: after any build, every Joint created is exactly once in the joints
\* of the instance in whose layer its link was declared and in no other
\* instance's joints, and it is in joined_to_me of its source and target
\* leaf instances and of no other instance.
C13_JointOwnership ==
    Built =>
        \A j \in DOMAIN fl_out.joints : \A i \in DOMAIN fl_out.insts :
            /\ Occurrences(fl_out.insts[i].joints, j)
                  = (IF i = fl_out.joints[j].instance THEN 1 ELSE 0)
            /\ Occurrences(fl_out.insts[i].joined_to_me, j) > 0
                  <=> i \in {fl_out.joints[j].source_instance,
                             fl_out.joints[j].target_instance}

\* a build completed with a joint between two different leaves, made by a
\* link of the root
C13_Witness ==
    /\ Completed
    /\ \E j \in DOMAIN fl_out.joints :
          /\ fl_out.joints[j].instance = fl_out.ret
          /\ fl_out.joints[j].source_instance /= fl_out.joints[j].target_instance
          /\ Occurrences(fl_out.insts[fl_out.ret].joints, j) = 1
          /\ Occurrences(fl_out.insts[fl_out.joints[j].target_instance].joined_to_me, j) = 1

\* a residual Expression of the result was called
ResidualEvaluated == sp_val /= None

\* C14: a residual Expression returned by simplify_expression_pool, called
\* with a context that supplies exactly the undefined symbols it depends
\* on, does not trip the 'Constants are being overwritten' assertion; for
\* D = 3, C = A + D, B = C + D with A undefined in particular.
C14_NoNameCollision ==
    ResidualEvaluated => sp_val /= Err("NameCollision")

\* the diamond B = C + D, C = D + 1, D = A + 1: D is reached from B
\* directly and through C
DiamondPool ==
    [B |-> defer_operation_factory(Symbol("C"), "add", Symbol("D")),
     C |-> defer_operation_factory(Symbol("D"), "add", One),
     D |-> defer_operation_factory(Symbol("A"), "add", One)]

\* C15: for a pool whose dependency graph has no cycle, diamond-shaped
\* sharing included, simplify_expression_pool does not raise
\* CircularDependency and hands each key's value to substitute at most
\* once, a later visit of the key returning the memoized result.
C15_AcyclicSimplifiedOnce ==
    (Simplified /\ ~HasCycle(sp_pool)) =>
        /\ sp_out /= Err("CircularDependency")
        /\ \A k \in DOMAIN sp_pool : Occurrences(sp_trace, k) <= 1

\* the diamond was simplified starting from B: D was visited twice and
\* substituted once
C15_Witness ==
    /\ Simplified
    /\ sp_pool = DiamondPool
    /\ sp_order[1] = "B"
    /\ sp_out.t = "dict"
    /\ DOMAIN sp_out.v = {"B", "C", "D"}
    /\ sp_trace = <<"D", "C", "B">>

====
